---- MODULE Spec2Model ----
(***************************************************************************)
(* The turn-processing workflow of the Feyod chatbot (the LangGraph graph  *)
(* of agent/WorkflowManager.py driven by app.py's on_message) and the pure *)
(* function canonicalize_query.                                            *)
(*                                                                         *)
(* A text is a sequence of one-character strings; a fixed literal of the   *)
(* code is written as a one-element sequence holding the whole literal.    *)
(***************************************************************************)
EXTENDS Integers, Sequences, FiniteSets, TLC

VARIABLES
    \* ---- cl.user_session (app.py) ----
    session_messages,     \* user_session["messages"]; <<>> while never set
    session_resolved,     \* user_session["resolved_entities"]
    session_schema,       \* user_session["schema"]
    session_timestamp,    \* user_session["schema_timestamp"]
    \* ---- AgentState of the running turn ----
    messages,
    schema,
    schema_timestamp,
    resolved_entities,
    fix_attempts,
    \* ---- control ----
    pc,                   \* the stage the graph engine runs next, "idle" between turns
    turn,                 \* number of on_message calls so far
    \* ---- what the turn did (read by the properties only) ----
    trace,                \* stages executed in this turn, in order
    turn_start,           \* Len(messages) when the graph was invoked
    fmt,                  \* what format_answer_node did: branch taken, message it read,
                          \* whether get_llm() gave a formatter, the results text of
                          \* its prompt, how llm.ainvoke ended
    fix,                  \* what fix_query_node last did: attempt_fix_sql called or not
    canonical_query,      \* the text handed to generate_sql_from_nl
    answer,               \* content of the cl.Message sent to the user
    outcome,              \* how the last on_message call ended
    provider,             \* get_schema_description so far: calls made, schemas returned
    \* ---- canonicalize_query as a pure function ----
    cq_pc, cq_query, cq_map, cq_once, cq_twice

vars == << session_messages, session_resolved, session_schema, session_timestamp,
           messages, schema, schema_timestamp, resolved_entities, fix_attempts,
           pc, turn, trace, turn_start, fmt, fix, canonical_query, answer, outcome,
           provider,
           cq_pc, cq_query, cq_map, cq_once, cq_twice >>

session_vars == << session_messages, session_resolved, session_schema, session_timestamp >>
state_vars == << messages, schema, schema_timestamp, resolved_entities, fix_attempts >>
cq_vars == << cq_pc, cq_query, cq_map, cq_once, cq_twice >>

----------------------------------------------------------------------------
\* Bounds of the model.

\* config.MAX_FIX_ATTEMPTS, the configured repair bound.
MAX_FIX_ATTEMPTS == 1

\* Turns (on_message calls) of one chat session.
MaxTurns == 2

\* Clarify passes the model follows in one turn.
MaxClarify == 2

\* A workflow whose routers both respect the repair bound executes at most
\* MAX_FIX_ATTEMPTS + 1 checks, as many executions and MAX_FIX_ATTEMPTS repairs.
BoundedCycle == 3 * MAX_FIX_ATTEMPTS + 2

\* Stage executions of the CheckSyntax/Execute/Repair cycle the model follows in one turn.
MaxCycle == BoundedCycle + 1

\* Messages _prepare_llm_context keeps when it trims the history.
CtxKeep == 2

----------------------------------------------------------------------------
\* Values.

Null == <<"None">>

Stages == {"get_schema", "clarify", "generate_query", "check_query",
           "execute_query", "fix_query", "format_answer"}

CycleStages == {"check_query", "execute_query", "fix_query"}

\* Utterances the user sends in the workflow model.
Utterances == { <<"w", "i", "e", " ", "i", "s", " ", "f", "?">> }

\* What resolve_entities can return for an utterance.
ResolverMaps == { << >>, << << <<"f">>, <<"F", " ", "r">> >> >> }

SchemaText == <<"CREATE TABLE clubs">>

\* What execute_query can return: no rows, or rows of integer columns.
ExecutorRows == { << >>, << <<1>>, <<2>> >> }

DigitChars == <<"0", "1", "2", "3", "4", "5", "6", "7", "8", "9">>

RECURSIVE JoinTexts(_, _, _)
\* sep.join(texts), from the i-th text on.
JoinTexts(texts, sep, i) ==
    IF i > Len(texts) THEN << >>
    ELSE IF i = Len(texts) THEN texts[i]
    ELSE (texts[i] \o sep) \o JoinTexts(texts, sep, i + 1)

\* json.dumps of a list: its items separated by ", " inside brackets; str() of a
\* list of integers is the same text.
DumpList(items) == (<<"[">> \o JoinTexts(items, <<",", " ">>, 1)) \o <<"]">>
DumpRow(row) == DumpList([k \in 1..Len(row) |-> << DigitChars[row[k] + 1] >>])
json_dumps(rows) == DumpList([k \in 1..Len(rows) |-> DumpRow(rows[k])])

RECURSIVE LoadsFrom(_, _, _, _, _)
\* json.loads of a list of lists of one-digit integers, read left to right.
LoadsFrom(text, i, depth, row, rows) ==
    IF i > Len(text) THEN rows
    ELSE IF text[i] = "[" THEN LoadsFrom(text, i + 1, depth + 1, << >>, rows)
    ELSE IF text[i] = "]"
    THEN LoadsFrom(text, i + 1, depth - 1, << >>,
                   IF depth = 2 THEN Append(rows, row) ELSE rows)
    ELSE IF \E n \in 0..9 : DigitChars[n + 1] = text[i]
    THEN LoadsFrom(text, i + 1, depth,
                   Append(row, CHOOSE n \in 0..9 : DigitChars[n + 1] = text[i]), rows)
    ELSE LoadsFrom(text, i + 1, depth, row, rows)

json_loads(text) == LoadsFrom(text, 1, 0, << >>, << >>)

\* The rows text cut down to the first row.
formatted_results_first_row(results) == DumpRow(results[1])

\* "\n".join([str(row) for row in results])
formatted_results(results) ==
    JoinTexts([k \in 1..Len(results) |-> DumpRow(results[k])], <<"\n">>, 1)

\* Contents of the results-tagged messages: the rows serialised by json.dumps.
ResultContents == { json_dumps(rows) : rows \in ExecutorRows }

\* The content of an error-tagged message: the stages read it only to hand it on
\* (to the repair collaborator and to the error prompt), so one text stands for all.
ErrorText == <<"error text">>

HumanMessage(c) == [type |-> "human", name |-> "None", content |-> c]
AIMessage(n, c) == [type |-> "ai", name |-> n, content |-> c]

----------------------------------------------------------------------------
\* agent/State.py helpers.

RECURSIVE LastIndex(_, _, _)
\* The largest i <= n with ms[i].name = name, 0 when there is none.
LastIndex(ms, n, name) ==
    IF n = 0 THEN 0
    ELSE IF ms[n].name = name THEN n
    ELSE LastIndex(ms, n - 1, name)

\* Index of the last message named `name` (0: None).
find_last_message_by_name(ms, name) == LastIndex(ms, Len(ms), name)

RECURSIVE LastHuman(_, _)
LastHuman(ms, n) ==
    IF n = 0 THEN 0
    ELSE IF ms[n].type = "human" THEN n
    ELSE LastHuman(ms, n - 1)

\* Index of the last HumanMessage (0: None).
find_last_human_message(ms) == LastHuman(ms, Len(ms))


----------------------------------------------------------------------------
\* common.utils.memory_utils._prepare_llm_context: the history handed to the
\* language model, either whole or cut to its most recent messages.  A context
\* is given by the number of leading messages it drops.
PreparedContexts(ms) ==
    {0} \cup (IF Len(ms) > CtxKeep THEN {Len(ms) - CtxKeep} ELSE {})

\* find_last_message_by_name / find_last_human_message on a prepared context.
ContextLastByName(ms, drop, name) ==
    IF find_last_message_by_name(ms, name) > drop
    THEN find_last_message_by_name(ms, name) ELSE 0

ContextLastHuman(ms, drop) ==
    IF find_last_human_message(ms) > drop THEN find_last_human_message(ms) ELSE 0

----------------------------------------------------------------------------
\* Transition routers.

LastName(ms) == IF Len(ms) = 0 THEN "None" ELSE ms[Len(ms)].name

\* The conditional edge after clarify (the lambda of create_workflow).
clarify_route(ms) ==
    IF find_last_message_by_name(ms, "clarified") # 0 THEN "generate_query" ELSE "clarify"

\* The router after check_query deciding on any error-tagged message of the
\* history instead of the last message.
should_fix_or_execute_any_error(ms, attempts) ==
    IF find_last_message_by_name(ms, "error") # 0 /\ attempts < MAX_FIX_ATTEMPTS
    THEN "fix_query"
    ELSE IF LastName(ms) = "check_result" THEN "execute_query"
    ELSE "format_answer"

\* The router after execute_query deciding on any error-tagged message of the
\* history instead of the last message.
after_execution_any_error(ms) ==
    IF find_last_message_by_name(ms, "error") # 0 THEN "fix_query"
    ELSE "format_answer"

\* The router after check_query sending a failed check with no repair left to
\* execute_query.
should_fix_or_execute_unchecked(ms, attempts) ==
    IF LastName(ms) = "error" /\ attempts < MAX_FIX_ATTEMPTS THEN "fix_query"
    ELSE IF LastName(ms) \in {"check_result", "error"} THEN "execute_query"
    ELSE "format_answer"

should_fix_or_execute(ms, attempts) ==
    IF LastName(ms) = "error" /\ attempts < MAX_FIX_ATTEMPTS THEN "fix_query"
    ELSE IF LastName(ms) = "check_result" THEN "execute_query"
    ELSE "format_answer"

after_execution(ms) ==
    IF LastName(ms) = "error" THEN "fix_query"
    ELSE IF LastName(ms) = "results" THEN "format_answer"
    ELSE "format_answer"

----------------------------------------------------------------------------
\* The resolved-entity map is a Python dict: a sequence of <<mention, canonical>>
\* pairs in insertion order, with distinct mentions.

RECURSIVE KeyIndex(_, _, _)
KeyIndex(d, n, k) ==
    IF n = 0 THEN 0
    ELSE IF d[n][1] = k THEN n
    ELSE KeyIndex(d, n - 1, k)

Keys(d) == { d[i][1] : i \in 1..Len(d) }

\* d[k] = v
DictSet(d, k, v) ==
    IF KeyIndex(d, Len(d), k) = 0 THEN Append(d, <<k, v>>)
    ELSE [d EXCEPT ![KeyIndex(d, Len(d), k)] = <<k, v>>]

RECURSIVE DictUpdateFrom(_, _, _)
DictUpdateFrom(d, new, i) ==
    IF i > Len(new) THEN d
    ELSE DictUpdateFrom(DictSet(d, new[i][1], new[i][2]), new, i + 1)

\* d.update(new)
DictUpdate(d, new) == DictUpdateFrom(d, new, 1)

----------------------------------------------------------------------------
\* Counters read off the turn's trace.

RECURSIVE CountIn(_, _, _)
CountIn(t, n, S) ==
    IF n = 0 THEN 0
    ELSE CountIn(t, n - 1, S) + (IF t[n] \in S THEN 1 ELSE 0)

Executed(S) == CountIn(trace, Len(trace), S)

\* One stage execution: the node's update is merged into the state (add_messages
\* appends the returned message) and the engine moves to the next node.
StageDone(stage, msg, next) ==
    /\ messages' = Append(messages, msg)
    /\ trace' = Append(trace, stage)
    /\ pc' = next

\* The turn's AgentState is gone once on_message has returned.
NoFmt == [branch |-> "None", src |-> 0, reply |-> "None", llm |-> TRUE,
          results |-> <<"None">>]
NoFix == [call |-> "None"]

TurnStateDropped ==
    /\ messages' = << >>
    /\ schema' = Null
    /\ schema_timestamp' = 0
    /\ resolved_entities' = << >>
    /\ fix_attempts' = 0
    /\ trace' = << >>
    /\ turn_start' = 0
    /\ fmt' = NoFmt
    /\ canonical_query' = Null
    /\ fix' = NoFix

\* An exception leaves the graph: on_message reports it and returns.
WorkflowRaised(stage) ==
    /\ pc' = "idle"
    /\ outcome' = [kind |-> "exception", stage |-> stage]
    /\ answer' = <<"Er is een fout opgetreden tijdens het uitvoeren van de workflow">>
    /\ TurnStateDropped
    /\ UNCHANGED << session_vars, turn >>

----------------------------------------------------------------------------
\* canonicalize_query, on texts as sequences of characters.

UpperCase == <<"A","B","C","D","E","F","G","H","I","J","K","L","M",
               "N","O","P","Q","R","S","T","U","V","W","X","Y","Z">>
LowerCase == <<"a","b","c","d","e","f","g","h","i","j","k","l","m",
               "n","o","p","q","r","s","t","u","v","w","x","y","z">>
Digits == {"0","1","2","3","4","5","6","7","8","9"}

\* str.split() with no argument splits at these.
IsSpace(c) == c \in {" ", "\t", "\n", "\r"}

\* \w of the re module.
IsWordChar(c) ==
    \/ \E i \in 1..26 : c = UpperCase[i] \/ c = LowerCase[i]
    \/ c \in Digits
    \/ c = "_"

\* The case folding re.IGNORECASE compares with.
Lower(c) ==
    IF \E i \in 1..26 : c = UpperCase[i]
    THEN LowerCase[CHOOSE i \in 1..26 : c = UpperCase[i]]
    ELSE c

RECURSIVE SplitJoinFrom(_, _, _, _)
SplitJoinFrom(s, i, acc, gap) ==
    IF i > Len(s) THEN acc
    ELSE IF IsSpace(s[i]) THEN SplitJoinFrom(s, i + 1, acc, TRUE)
    ELSE SplitJoinFrom(s, i + 1,
                       (IF gap /\ acc # << >> THEN Append(acc, " ") ELSE acc) \o << s[i] >>,
                       FALSE)

\* ' '.join(s.split())
SplitJoin(s) == SplitJoinFrom(s, 1, << >>, FALSE)

\* \b at the position before s[p] (p = Len(s) + 1: the end of the text).
WordAt(s, j) == j >= 1 /\ j <= Len(s) /\ IsWordChar(s[j])
WordBoundary(s, p) == WordAt(s, p - 1) # WordAt(s, p)

\* The same pattern compiled without re.IGNORECASE.
PatternMatchesCaseSensitive(s, i, m) ==
    /\ i + Len(m) - 1 <= Len(s)
    /\ WordBoundary(s, i)
    /\ \A k \in 1..Len(m) : s[i + k - 1] = m[k]
    /\ WordBoundary(s, i + Len(m))

\* The pattern \b + re.escape(m) + \b matches s at position i, ignoring case.
PatternMatchesAt(s, i, m) ==
    /\ i + Len(m) - 1 <= Len(s)
    /\ WordBoundary(s, i)
    /\ \A k \in 1..Len(m) : Lower(s[i + k - 1]) = Lower(m[k])
    /\ WordBoundary(s, i + Len(m))

RECURSIVE ReSubFrom(_, _, _, _, _)
ReSubFrom(s, m, repl, i, acc) ==
    IF i > Len(s)
    THEN IF Len(m) = 0 /\ PatternMatchesAt(s, i, m) THEN acc \o repl ELSE acc
    ELSE IF PatternMatchesAt(s, i, m)
    THEN IF Len(m) = 0
         THEN ReSubFrom(s, m, repl, i + 1, (acc \o repl) \o << s[i] >>)
         ELSE ReSubFrom(s, m, repl, i + Len(m), acc \o repl)
    ELSE ReSubFrom(s, m, repl, i + 1, Append(acc, s[i]))

\* re.sub(r'\b' + re.escape(m) + r'\b', repl, s, flags=re.IGNORECASE): the
\* non-overlapping matches from left to right.  (No text of the model holds a
\* backslash, which re.sub would expand in repl.)
ReSub(s, m, repl) == ReSubFrom(s, m, repl, 1, << >>)

RECURSIVE CanonicalizeFrom(_, _, _)
CanonicalizeFrom(result, d, i) ==
    IF i > Len(d) THEN result
    ELSE CanonicalizeFrom(ReSub(result, SplitJoin(d[i][1]), d[i][2]), d, i + 1)

canonicalize_query(user_query, resolved) ==
    CanonicalizeFrom(SplitJoin(user_query), resolved, 1)

----------------------------------------------------------------------------
\* app.py, on_message up to the invocation of the graph.

\* on_message starting every turn but the session's first with the repair
\* counter used up.
OnMessageCarryingCounter(u) ==
    /\ pc = "idle"
    /\ turn < MaxTurns
    /\ LET previous_messages == Append(session_messages, HumanMessage(u)) IN
        \* the stored list is appended to in place; the default [] is not stored
        /\ session_messages' =
               IF session_messages = << >> THEN << >> ELSE previous_messages
        /\ messages' = previous_messages
        /\ turn_start' = Len(previous_messages)
    /\ resolved_entities' = session_resolved
    /\ schema' = session_schema
    /\ schema_timestamp' = session_timestamp
    /\ fix_attempts' = IF session_messages = << >> THEN 0 ELSE MAX_FIX_ATTEMPTS
    /\ pc' = "get_schema"
    /\ turn' = turn + 1
    /\ trace' = << >>
    /\ fmt' = NoFmt
    /\ canonical_query' = Null
    /\ fix' = NoFix
    /\ answer' = Null
    /\ outcome' = [kind |-> "running", stage |-> "None"]
    /\ UNCHANGED << session_resolved, session_schema, session_timestamp, cq_vars,
                    provider >>

OnMessage(u) ==
    /\ pc = "idle"
    /\ turn < MaxTurns
    /\ LET previous_messages == Append(session_messages, HumanMessage(u)) IN
        \* the stored list is appended to in place; the default [] is not stored
        /\ session_messages' =
               IF session_messages = << >> THEN << >> ELSE previous_messages
        /\ messages' = previous_messages
        /\ turn_start' = Len(previous_messages)
    /\ resolved_entities' = session_resolved
    /\ schema' = session_schema
    /\ schema_timestamp' = session_timestamp
    /\ fix_attempts' = 0
    /\ pc' = "get_schema"
    /\ turn' = turn + 1
    /\ trace' = << >>
    /\ fmt' = NoFmt
    /\ canonical_query' = Null
    /\ fix' = NoFix
    /\ answer' = Null
    /\ outcome' = [kind |-> "running", stage |-> "None"]
    /\ UNCHANGED << session_resolved, session_schema, session_timestamp, cq_vars,
                    provider >>

----------------------------------------------------------------------------
\* The nodes of the graph.

\* What get_schema_description does when it is called.
ProviderResults == {"schema", "empty", "error_flagged", "raises"}

\* get_schema_node falling through to its final return after a failed load: the
\* provider's failure text is cached as the schema and the marker is appended.
get_schema_node_caching_failure ==
    /\ pc = "get_schema"
    /\ IF schema # Null
       THEN /\ StageDone("get_schema", AIMessage("schema", <<"Schema loaded.">>), "clarify")
            /\ UNCHANGED << schema, schema_timestamp, provider >>
       ELSE \E r \in ProviderResults :
            /\ StageDone("get_schema", AIMessage("schema", <<"Schema loaded.">>), "clarify")
            /\ schema' = IF r = "schema" THEN SchemaText ELSE ErrorText
            /\ schema_timestamp' = turn
            /\ provider' = [calls |-> provider.calls + 1,
                            loads |-> provider.loads + (IF r = "schema" THEN 1 ELSE 0)]
    /\ UNCHANGED << session_vars, resolved_entities, fix_attempts, turn, turn_start,
                    fmt, canonical_query, fix, answer, outcome, cq_vars >>

get_schema_node ==
    /\ pc = "get_schema"
    /\ IF schema # Null
       THEN \* cache hit: get_schema_description is not called
            /\ StageDone("get_schema", AIMessage("schema", <<"Schema loaded.">>), "clarify")
            /\ UNCHANGED << schema, schema_timestamp, provider >>
       ELSE \E r \in ProviderResults :
            IF r # "schema"
            THEN /\ StageDone("get_schema",
                              AIMessage("error", ErrorText), "clarify")
                 /\ provider' = [provider EXCEPT !.calls = @ + 1]
                 /\ UNCHANGED << schema, schema_timestamp >>
            ELSE /\ StageDone("get_schema", AIMessage("schema", <<"Schema loaded.">>), "clarify")
                 /\ schema' = SchemaText
                 \* datetime.utcnow(): a later turn reads a later clock
                 /\ schema_timestamp' = turn
                 /\ provider' = [calls |-> provider.calls + 1, loads |-> provider.loads + 1]
    /\ UNCHANGED << session_vars, resolved_entities, fix_attempts, turn, turn_start,
                    fmt, canonical_query, fix, answer, outcome, cq_vars >>

\* What the two Entity Resolver calls do: raise, or return the ambiguous mentions
\* (here: whether there are any) and the new mappings.
ResolverResults ==
    { [raises |-> TRUE, ambiguous |-> FALSE, new_resolved |-> << >>] }
    \cup [raises : {FALSE}, ambiguous : BOOLEAN, new_resolved : ResolverMaps]

clarify_node ==
    /\ pc = "clarify"
    /\ Executed({"clarify"}) < MaxClarify
    /\ IF find_last_human_message(messages) = 0
       THEN /\ StageDone("clarify",
                         AIMessage("error", ErrorText),
                         clarify_route(messages'))
            /\ UNCHANGED << session_vars, schema, schema_timestamp, resolved_entities,
                            fix_attempts, turn, turn_start, fmt, canonical_query, fix,
                            answer, outcome >>
       ELSE \E r \in ResolverResults :
            IF r.raises
            THEN WorkflowRaised("clarify")
            ELSE LET merged == DictUpdate(resolved_entities, r.new_resolved) IN
                 /\ resolved_entities' = merged
                 \* a non-empty map of the state is the session's dict object itself
                 /\ session_resolved' =
                        IF session_resolved # << >> THEN merged ELSE session_resolved
                 /\ StageDone("clarify",
                              IF r.ambiguous
                              THEN AIMessage("clarify", <<"Ik heb meerdere mogelijkheden gevonden">>)
                              ELSE AIMessage("clarified", <<"OK">>),
                              clarify_route(messages'))
                 /\ UNCHANGED << session_messages, session_schema, session_timestamp,
                                 schema, schema_timestamp, fix_attempts, turn, turn_start,
                                 fmt, canonical_query, fix, answer, outcome >>
    /\ UNCHANGED << cq_vars, provider >>

----------------------------------------------------------------------------
\* Collaborator outcomes of the SQL stages.

GeneratedSql == <<"SELECT generated">>
RepairedSql == <<"SELECT repaired">>

generate_query_node ==
    /\ pc = "generate_query"
    /\ \E drop \in PreparedContexts(messages), raises \in BOOLEAN :
        LET nl_query_msg == ContextLastHuman(messages, drop) IN
        IF schema = Null
        THEN /\ StageDone("generate_query",
                          AIMessage("error", ErrorText),
                          "check_query")
             /\ UNCHANGED canonical_query
        ELSE IF nl_query_msg = 0
        THEN /\ StageDone("generate_query",
                          AIMessage("error", ErrorText),
                          "check_query")
             /\ UNCHANGED canonical_query
        ELSE /\ canonical_query' =
                    canonicalize_query(messages[nl_query_msg].content, resolved_entities)
             /\ StageDone("generate_query",
                          IF raises
                          THEN AIMessage("error", ErrorText)
                          ELSE AIMessage("sql_query", GeneratedSql),
                          "check_query")
    /\ UNCHANGED << session_vars, schema, schema_timestamp, resolved_entities,
                    fix_attempts, turn, turn_start, fmt, fix, answer, outcome, cq_vars,
                    provider >>

\* check_sql_syntax returns (True, _) or (False, error), or raises.
CheckerResults == {"valid", "invalid", "raises"}

check_query_node ==
    /\ pc = "check_query"
    /\ Executed(CycleStages) < MaxCycle
    /\ \E r \in CheckerResults :
        StageDone("check_query",
                  IF find_last_message_by_name(messages, "sql_query") = 0
                  THEN AIMessage("error", ErrorText)
                  ELSE IF r = "valid"
                  THEN AIMessage("check_result", <<"Syntax check OK">>)
                  ELSE IF r = "invalid"
                  THEN AIMessage("error", ErrorText)
                  ELSE AIMessage("error", ErrorText),
                  should_fix_or_execute(messages', fix_attempts))
    /\ UNCHANGED << session_vars, schema, schema_timestamp, resolved_entities,
                    fix_attempts, turn, turn_start, fmt, canonical_query, fix, answer,
                    outcome, cq_vars,
                    provider >>

\* execute_query returns rows (a member of ResultContents once serialised) or raises.
execute_query_node ==
    /\ pc = "execute_query"
    /\ Executed(CycleStages) < MaxCycle
    /\ \E r \in ResultContents \cup {<<"raises">>} :
        StageDone("execute_query",
                  IF find_last_message_by_name(messages, "sql_query") = 0
                  THEN AIMessage("error", ErrorText)
                  ELSE IF r = <<"raises">>
                  THEN AIMessage("error", ErrorText)
                  ELSE AIMessage("results", r),
                  after_execution(messages'))
    /\ UNCHANGED << session_vars, schema, schema_timestamp, resolved_entities,
                    fix_attempts, turn, turn_start, fmt, canonical_query, fix, answer,
                    outcome, cq_vars,
                    provider >>

\* A repair that leaves the counter as it found it.
fix_attempts_kept(attempts) == attempts

\* state.get("fix_attempts", 0) + 1, returned on every path of fix_query_node.
fix_attempts_returned(attempts) == attempts + 1

fix_query_node ==
    /\ pc = "fix_query"
    /\ Executed(CycleStages) < MaxCycle
    /\ \E drop \in PreparedContexts(messages), raises \in BOOLEAN :
        LET invalid_sql_msg == ContextLastByName(messages, drop, "sql_query")
            error_msg == ContextLastByName(messages, drop, "error")
            original_nl_query_msg == ContextLastHuman(messages, drop)
        IN  /\ StageDone("fix_query",
                         IF invalid_sql_msg = 0 \/ error_msg = 0 \/ schema = Null
                            \/ original_nl_query_msg = 0
                         THEN AIMessage("error", ErrorText)
                         ELSE IF raises
                         THEN AIMessage("error", ErrorText)
                         ELSE AIMessage("sql_query", RepairedSql),
                         "check_query")
            /\ fix' = [call |-> IF invalid_sql_msg = 0 \/ error_msg = 0 \/ schema = Null
                                   \/ original_nl_query_msg = 0
                                THEN "skipped"
                                ELSE IF raises THEN "raised" ELSE "returned"]
    /\ fix_attempts' = fix_attempts_returned(fix_attempts)
    /\ UNCHANGED << session_vars, schema, schema_timestamp, resolved_entities,
                    turn, turn_start, fmt, canonical_query, answer, outcome, cq_vars,
                    provider >>

----------------------------------------------------------------------------
\* format_answer_node.

\* format_answer_node with its two tests swapped: the error message is looked at
\* before the results message.
FormatBranchErrorFirst(ms, llm) ==
    LET question_msg == find_last_human_message(ms)
        results_msg == find_last_message_by_name(ms, "results")
        error_msg == find_last_message_by_name(ms, "error")
    IN  IF ~llm THEN [branch |-> "llm_unavailable", src |-> 0]
        ELSE IF question_msg = 0 THEN [branch |-> "no_question", src |-> 0]
        ELSE IF error_msg # 0 THEN [branch |-> "error", src |-> error_msg]
        ELSE IF results_msg # 0
        THEN IF json_loads(ms[results_msg].content) = << >>
             THEN [branch |-> "results_empty", src |-> results_msg]
             ELSE [branch |-> "results_rows", src |-> results_msg]
        ELSE [branch |-> "fallback", src |-> 0]

\* format_answer_node looking at the results before it looks at the formatter
\* and the question.
FormatBranchResultsFirst(ms, llm) ==
    LET question_msg == find_last_human_message(ms)
        results_msg == find_last_message_by_name(ms, "results")
        error_msg == find_last_message_by_name(ms, "error")
    IN  IF results_msg # 0
        THEN IF json_loads(ms[results_msg].content) = << >>
             THEN [branch |-> "results_empty", src |-> results_msg]
             ELSE [branch |-> "results_rows", src |-> results_msg]
        ELSE IF ~llm THEN [branch |-> "llm_unavailable", src |-> 0]
        ELSE IF question_msg = 0 THEN [branch |-> "no_question", src |-> 0]
        ELSE IF error_msg # 0 THEN [branch |-> "error", src |-> error_msg]
        ELSE [branch |-> "fallback", src |-> 0]

\* The branch format_answer_node takes and the message it builds the prompt from.
FormatBranch(ms, llm) ==
    LET question_msg == find_last_human_message(ms)
        results_msg == find_last_message_by_name(ms, "results")
        error_msg == find_last_message_by_name(ms, "error")
    IN  IF ~llm THEN [branch |-> "llm_unavailable", src |-> 0]
        ELSE IF question_msg = 0 THEN [branch |-> "no_question", src |-> 0]
        ELSE IF results_msg # 0
        THEN IF json_loads(ms[results_msg].content) = << >>
             THEN [branch |-> "results_empty", src |-> results_msg]
             ELSE [branch |-> "results_rows", src |-> results_msg]
        ELSE IF error_msg # 0 THEN [branch |-> "error", src |-> error_msg]
        ELSE [branch |-> "fallback", src |-> 0]

\* The content of the final message; `raised`: llm.ainvoke raised inside the try.
FinalAnswerContent(branch, raised) ==
    IF branch = "llm_unavailable"
    THEN <<"Error: LLM not available to format the final answer.">>
    ELSE IF branch = "no_question"
    THEN <<"Error: Could not find original question to formulate answer.">>
    ELSE IF branch = "fallback" \/ raised
    THEN <<"Sorry, er is een onverwachte fout opgetreden.">>
    ELSE IF branch = "results_empty" THEN <<"LLM answer: Geen resultaten gevonden.">>
    ELSE IF branch = "results_rows" THEN <<"LLM answer from the rows">>
    ELSE <<"LLM answer disclosing the failure">>

\* The {results} argument of the prompt format_answer_node builds.
PromptResults(ms, b) ==
    IF b.branch = "results_empty" THEN <<"Geen resultaten gevonden.">>
    ELSE IF b.branch = "results_rows"
    THEN formatted_results(json_loads(ms[b.src].content))
    ELSE <<"None">>

\* Branches in which llm.ainvoke is called.
InvokingBranches == {"results_empty", "results_rows", "error"}

format_answer_node ==
    /\ pc = "format_answer"
    /\ \E llm \in BOOLEAN, raises \in BOOLEAN :
        LET b == FormatBranch(messages, llm) IN
        IF b.branch = "error" /\ raises
        THEN \* llm.ainvoke of the error branch is outside any try
             WorkflowRaised("format_answer")
        ELSE /\ fmt' = [branch |-> b.branch, src |-> b.src,
                        reply |-> IF b.branch \notin InvokingBranches THEN "None"
                                  ELSE IF raises THEN "raised" ELSE "answered",
                        llm |-> llm,
                        results |-> PromptResults(messages, b)]
             /\ StageDone("format_answer",
                          AIMessage("None", FinalAnswerContent(b.branch, raises)), "END")
             /\ UNCHANGED << session_vars, schema, schema_timestamp, resolved_entities,
                             fix_attempts, turn, turn_start, canonical_query, fix, answer,
                             outcome >>
    /\ UNCHANGED << cq_vars, provider >>

----------------------------------------------------------------------------
\* app.py, on_message after the graph has returned its final state.

\* on_message taking the last message of the final state for something other than
\* the answer and sending its fallback text.
OnMessageReturnSendingFallback ==
    /\ pc = "END"
    /\ session_messages' = messages
    /\ session_resolved' = resolved_entities
    /\ session_schema' = schema
    /\ session_timestamp' = schema_timestamp
    /\ answer' = <<"Sorry, ik kon het antwoord niet correct formatteren.">>
    /\ outcome' = [kind |-> "answered", stage |-> "None"]
    /\ pc' = "idle"
    /\ TurnStateDropped
    /\ UNCHANGED << turn, cq_vars,
                    provider >>

OnMessageReturn ==
    /\ pc = "END"
    /\ session_messages' = messages
    /\ session_resolved' = resolved_entities
    /\ session_schema' = schema
    /\ session_timestamp' = schema_timestamp
    /\ answer' = IF messages[Len(messages)].type = "ai"
                 THEN messages[Len(messages)].content
                 ELSE <<"Sorry, ik kon het antwoord niet correct formatteren.">>
    /\ outcome' = [kind |-> "answered", stage |-> "None"]
    /\ pc' = "idle"
    /\ TurnStateDropped
    /\ UNCHANGED << turn, cq_vars,
                    provider >>

----------------------------------------------------------------------------
\* The chat session.

WorkflowInit ==
    /\ session_messages = << >>
    /\ session_resolved = << >>
    /\ session_schema = Null
    /\ session_timestamp = 0
    /\ messages = << >>
    /\ schema = Null
    /\ schema_timestamp = 0
    /\ resolved_entities = << >>
    /\ fix_attempts = 0
    /\ pc = "idle"
    /\ turn = 0
    /\ trace = << >>
    /\ turn_start = 0
    /\ fmt = NoFmt
    /\ canonical_query = Null
    /\ fix = NoFix
    /\ answer = Null
    /\ outcome = [kind |-> "None", stage |-> "None"]
    /\ provider = [calls |-> 0, loads |-> 0]

CqIdle ==
    /\ cq_pc = "off"
    /\ cq_query = << >>
    /\ cq_map = << >>
    /\ cq_once = << >>
    /\ cq_twice = << >>

Init == WorkflowInit /\ CqIdle

StageStep ==
    \/ get_schema_node
    \/ clarify_node
    \/ generate_query_node
    \/ check_query_node
    \/ execute_query_node
    \/ fix_query_node
    \/ format_answer_node

Next ==
    \/ \E u \in Utterances : OnMessage(u)
    \/ StageStep
    \/ OnMessageReturn

Spec == Init /\ [][Next]_vars

----------------------------------------------------------------------------
\* canonicalize_query applied to bounded inputs, once and then to its own result.

\* Longest utterance and largest map the enumeration draws.
MaxQueryLen == 4
MaxMapLen == 2

CqAlphabet == {"f", "F", "r", " ", "?"}

RECURSIVE TextsUpTo(_)
TextsUpTo(n) ==
    IF n = 0 THEN { << >> }
    ELSE LET shorter == TextsUpTo(n - 1) IN
         shorter \cup { Append(t, c) : t \in { x \in shorter : Len(x) = n - 1 }, c \in CqAlphabet }

ExampleQuery ==
    <<"H","o","e"," ","h","e","e","f","t"," ","f","e","y","e","n","o","o","r","d"," ",
      "g","i","s","t","e","r","e","n"," ","g","e","s","p","e","e","l","d","?">>
ExampleMention == <<"F","e","y","e","n","o","o","r","d">>
ExampleCanonical ==
    <<"F","e","y","e","n","o","o","r","d"," ","R","o","t","t","e","r","d","a","m">>
ExampleMap == << <<ExampleMention, ExampleCanonical>> >>
ExampleResult ==
    <<"H","o","e"," ","h","e","e","f","t"," ","F","e","y","e","n","o","o","r","d"," ",
      "R","o","t","t","e","r","d","a","m"," ",
      "g","i","s","t","e","r","e","n"," ","g","e","s","p","e","e","l","d","?">>

\* Utterances: every text over the alphabet up to the bound, the example of the
\* specification, and one with a run of mixed whitespace.
CqQueries ==
    TextsUpTo(MaxQueryLen) \cup { ExampleQuery, <<"f", "\t", "\n", " ", "r">> }

CqMentions == { <<"f">>, <<"r">>, <<"f", " ", "r">> }
CqCanonicals == { <<"F", " ", "r">>, <<"r">> }
CqPairs == { <<m, c>> : m \in CqMentions, c \in CqCanonicals }

RECURSIVE DictsUpTo(_)
\* The dicts with at most n entries: sequences of pairs with distinct keys.
DictsUpTo(n) ==
    IF n = 0 THEN { << >> }
    ELSE LET smaller == DictsUpTo(n - 1) IN
         smaller \cup UNION { { Append(d, p) : p \in { q \in CqPairs : q[1] \notin Keys(d) } } :
                               d \in { x \in smaller : Len(x) = n - 1 } }

CqMaps == DictsUpTo(MaxMapLen) \cup { ExampleMap }

WorkflowIdle ==
    /\ WorkflowInit
    /\ UNCHANGED << session_vars, state_vars, pc, turn, trace, turn_start, fmt,
                    canonical_query, fix, answer, outcome, provider >>

CanonInit ==
    /\ WorkflowInit
    /\ cq_pc = "ready"
    /\ cq_query \in CqQueries
    /\ cq_map \in CqMaps
    /\ cq_once = << >>
    /\ cq_twice = << >>

CanonicalizeOnce ==
    /\ cq_pc = "ready"
    /\ cq_once' = canonicalize_query(cq_query, cq_map)
    /\ cq_pc' = "once"
    /\ UNCHANGED << cq_query, cq_map, cq_twice >>
    /\ WorkflowIdle

CanonicalizeAgain ==
    /\ cq_pc = "once"
    /\ cq_twice' = canonicalize_query(cq_once, cq_map)
    /\ cq_pc' = "twice"
    /\ UNCHANGED << cq_query, cq_map, cq_once >>
    /\ WorkflowIdle

CanonNext == CanonicalizeOnce \/ CanonicalizeAgain

CanonSpec == CanonInit /\ [][CanonNext]_vars

----------------------------------------------------------------------------
\* Whole-word replacement described on words instead of characters: a text is cut
\* into tokens, a token being a maximal run of word characters or one other
\* character.

RECURSIVE TokensFrom(_, _, _)
TokensFrom(s, i, toks) ==
    IF i > Len(s) THEN toks
    ELSE IF i > 1 /\ IsWordChar(s[i - 1]) /\ IsWordChar(s[i])
    THEN TokensFrom(s, i + 1, [toks EXCEPT ![Len(toks)] = Append(@, s[i])])
    ELSE TokensFrom(s, i + 1, Append(toks, << s[i] >>))

Tokens(s) == TokensFrom(s, 1, << >>)

IsSpaceToken(t) == IsSpace(t[1])

RECURSIVE Flatten(_)
Flatten(toks) == IF toks = << >> THEN << >> ELSE Head(toks) \o Flatten(Tail(toks))

\* The tokens with leading and trailing whitespace removed and every other
\* whitespace run turned into one space.
RECURSIVE TrimmedFrom(_, _, _, _)
TrimmedFrom(toks, i, acc, gap) ==
    IF i > Len(toks) THEN acc
    ELSE IF IsSpaceToken(toks[i]) THEN TrimmedFrom(toks, i + 1, acc, acc # << >>)
    ELSE TrimmedFrom(toks, i + 1,
                     (IF gap THEN Append(acc, << " " >>) ELSE acc) \o << toks[i] >>, FALSE)

Trimmed(toks) == TrimmedFrom(toks, 1, << >>, FALSE)

FoldCase(t) == [k \in 1..Len(t) |-> Lower(t[k])]

\* The tokens of the mention stand at position i of toks, whatever the case.
MentionAt(toks, i, mention) ==
    /\ Len(mention) > 0
    /\ i + Len(mention) - 1 <= Len(toks)
    /\ \A k \in 1..Len(mention) : FoldCase(toks[i + k - 1]) = FoldCase(mention[k])

MentionTokens(m) == Trimmed(Tokens(m))

RECURSIVE ReplaceWordsFrom(_, _, _, _, _)
ReplaceWordsFrom(toks, mention, canonical, i, acc) ==
    IF i > Len(toks) THEN acc
    ELSE IF MentionAt(toks, i, mention)
    THEN ReplaceWordsFrom(toks, mention, canonical, i + Len(mention), acc \o canonical)
    ELSE ReplaceWordsFrom(toks, mention, canonical, i + 1, acc \o toks[i])

\* The text with the whole-word occurrences of one mention replaced, from left to right.
ReplaceWords(text, m, canonical) ==
    ReplaceWordsFrom(Tokens(text), MentionTokens(m), canonical, 1, << >>)

RECURSIVE PairByPairFrom(_, _, _)
PairByPairFrom(text, d, i) ==
    IF i > Len(d) THEN text
    ELSE PairByPairFrom(ReplaceWords(text, d[i][1], d[i][2]), d, i + 1)

\* The pairs applied one after the other, each to the text the earlier ones left.
PairByPair(q, d) == PairByPairFrom(Flatten(Trimmed(Tokens(q))), d, 1)

\* The first pair of d whose mention stands at position i (0: none).
RECURSIVE FirstPairAt(_, _, _, _)
FirstPairAt(toks, i, d, j) ==
    IF j > Len(d) THEN 0
    ELSE IF MentionAt(toks, i, MentionTokens(d[j][1])) THEN j
    ELSE FirstPairAt(toks, i, d, j + 1)

RECURSIVE AllAtOnceFrom(_, _, _, _)
AllAtOnceFrom(toks, d, i, acc) ==
    IF i > Len(toks) THEN acc
    ELSE LET j == FirstPairAt(toks, i, d, 1) IN
         IF j = 0 THEN AllAtOnceFrom(toks, d, i + 1, acc \o toks[i])
         ELSE AllAtOnceFrom(toks, d, i + Len(MentionTokens(d[j][1])), acc \o d[j][2])

\* Every occurrence of every mention in the utterance replaced by that mention's
\* canonical name, every other token of the utterance kept.
AllAtOnce(q, d) == AllAtOnceFrom(Trimmed(Tokens(q)), d, 1, << >>)

----------------------------------------------------------------------------
\* What the properties read off a state.

Last(t) == t[Len(t)]

StagesRun == { trace[i] : i \in 1..Len(trace) }

\* Every stage execution appends one message: the i-th stage of the turn wrote
\* messages[turn_start + i].
MessageOfStage(i) == turn_start + i

\* The tags of messages[from..Len(messages)].
TagsFrom(from) ==
    [k \in 1..(Len(messages) - from + 1) |-> messages[from + k - 1].name]

\* SchemaLoad of this turn found no cached schema and the provider failed.
SchemaLoadFailed ==
    /\ trace # << >>
    /\ trace[1] = "get_schema"
    /\ messages[MessageOfStage(1)].name = "error"

\* The last results-tagged and error-tagged messages the history holds when
\* format_answer_node runs (0: none).
LastResults == find_last_message_by_name(messages, "results")
LastError == find_last_message_by_name(messages, "error")

\* format_answer_node has run and got past its two short-circuits (formatter
\* unavailable, question not found).
FormatterChose ==
    /\ pc = "END"
    /\ fmt.branch \notin {"llm_unavailable", "no_question"}

----------------------------------------------------------------------------
\* C1: in every state of a turn, whatever the collaborators returned, the repair
\* counter is at most MAX_FIX_ATTEMPTS.
C1_RepairCounterWithinBound == fix_attempts <= MAX_FIX_ATTEMPTS

\* C2: a turn that has entered GenerateQuery reaches FormatAnswer: the
\* CheckSyntax/Execute/Repair cycle is left after finitely many stage executions.
\* Every stage execution appends a message and every stage has finitely many
\* outcomes, so the cycle is left on every sequence of outcomes exactly if its
\* length has a bound; the bound a repair counter that stops at MAX_FIX_ATTEMPTS
\* gives is BoundedCycle.  Stated on finite runs: a turn that is still inside the
\* cycle has executed at most BoundedCycle of its stages.
C2_CycleIsLeft == pc \in CycleStages => Executed(CycleStages) <= BoundedCycle

\* C3: in a turn whose schema load failed, GenerateQuery is never executed, and
\* the answer FormatAnswer gives discloses the error.
C3_SchemaFailureSkipsGenerate ==
    SchemaLoadFailed =>
        /\ "generate_query" \notin StagesRun
        /\ FormatterChose => fmt.branch = "error"

\* C4: when FormatAnswer runs and the most recent of the results- and error-tagged
\* messages of the history is error-tagged, it takes the failure-disclosure
\* branch, also when an earlier turn left a results-tagged message.
C4_LatestErrorIsDisclosed ==
    (FormatterChose /\ LastError > LastResults) => fmt.branch = "error"

\* C5: a results-tagged message appended after an error-tagged one is
\* authoritative: after Execute appended results the router selects FormatAnswer,
\* and FormatAnswer (past its short-circuits) takes the results branch on that
\* latest results message.
C5_FreshResultsWin ==
    /\ (trace # << >> /\ Last(trace) = "execute_query" /\ LastName(messages) = "results")
           => pc = "format_answer"
    /\ (FormatterChose /\ LastError # 0 /\ LastResults > LastError)
           => /\ fmt.branch \in {"results_empty", "results_rows"}
              /\ fmt.src = LastResults

\* A turn in which a check failed, a repair produced SQL, and the executed rows
\* were formatted although the history holds the earlier error.
C5_Witness ==
    /\ FormatterChose
    /\ LastError > turn_start
    /\ LastResults > LastError
    /\ "fix_query" \in StagesRun
    /\ fmt.branch = "results_rows"

\* C6: the routing point after Clarify decides on the message Clarify has just
\* appended: GenerateQuery is next exactly if that message is clarified-tagged.
C6_ClarifyRoutesOnOwnMessage ==
    (trace # << >> /\ Last(trace) = "clarify")
        => (pc = "generate_query" <=> LastName(messages) = "clarified")

\* C7: the Clarify self-loop is bounded within a turn.  Stated on finite runs (as
\* for C2, the passes are finitely many on every sequence of resolver answers
\* exactly if their number has a bound): Clarify is not due again once it has run
\* MaxClarify times in the turn.
C7_ClarifyLoopBounded == pc = "clarify" => Executed({"clarify"}) < MaxClarify

\* The turn of C8: GenerateQuery produced SQL, the check failed, Repair produced
\* SQL, the check passed, Execute returned rows and FormatAnswer has run.
RepairedOnceTags == <<"sql_query", "error", "sql_query", "check_result", "results", "None">>

RepairedOnceTurn(g) ==
    /\ pc = "END"
    /\ g \in 1..Len(trace)
    /\ trace[g] = "generate_query"
    /\ TagsFrom(MessageOfStage(g)) = RepairedOnceTags

\* The final messages the formatter gives when it is handed a results prompt.
ResultsAnswers ==
    { FinalAnswerContent("results_empty", FALSE), FinalAnswerContent("results_rows", FALSE) }

\* C8: in a turn whose SQL fails the syntax check once and passes after the one
\* Repair, the stages run in the order GenerateQuery, CheckSyntax, Repair,
\* CheckSyntax, Execute, FormatAnswer, and the repair counter is 1; unless the
\* Answer Formatter is unavailable, FormatAnswer builds its prompt from the
\* results-tagged message Execute appended, and the formatter's reply to that
\* prompt is the final answer.
C8_OneRepairThenResults ==
    \A g \in 1..Len(trace) :
        RepairedOnceTurn(g) =>
            /\ SubSeq(trace, g, Len(trace)) =
                   <<"generate_query", "check_query", "fix_query", "check_query",
                     "execute_query", "format_answer">>
            /\ fix_attempts = 1
            /\ fmt.branch # "llm_unavailable" =>
                   /\ fmt.branch \in {"results_empty", "results_rows"}
                   /\ fmt.src = Len(messages) - 1
                   /\ messages[fmt.src].name = "results"
            /\ fmt.reply = "answered" => Last(messages).content \in ResultsAnswers

\* Such a turn as the second of a session, whose first turn left results, with
\* the formatter answering.
C8_Witness ==
    /\ \E g \in 1..Len(trace) : RepairedOnceTurn(g)
    /\ fmt.reply = "answered"
    /\ turn = 2
    /\ \E i \in 1..turn_start : messages[i].name = "results"

----------------------------------------------------------------------------
\* C9: canonicalization is idempotent: canonicalizing the canonicalized text with
\* the same map gives the same text.
C9_Idempotent == cq_pc = "twice" => cq_twice = cq_once

----------------------------------------------------------------------------
\* C11: no exception leaves a stage: whatever a collaborator does, no turn ends
\* with on_message reporting an exception of the workflow.
C11_NoStageRaises == outcome.kind # "exception"

----------------------------------------------------------------------------
\* The conversation's message history: the state's list while a turn runs, the
\* session's list between turns.
History == IF pc = "idle" THEN session_messages ELSE messages

IsPrefix(a, b) == Len(a) <= Len(b) /\ SubSeq(b, 1, Len(a)) = a

\* C12: the history is append-only: every step of a session leaves the history
\* it found as a prefix of the history it produces.
C12_HistoryAppendOnly == [][IsPrefix(History, History')]_vars

----------------------------------------------------------------------------
\* The conversation's resolved-entity map: the state's map while a turn runs, the
\* session's map between turns.
Resolved == IF pc = "idle" THEN session_resolved ELSE resolved_entities

\* d[k], for a key of d.
DictGet(d, k) == d[KeyIndex(d, Len(d), k)][2]

\* The canonical names resolve_entities can return for a mention.
ResolvableTo(k) ==
    UNION { { m[i][2] : i \in { j \in 1..Len(m) : m[j][1] = k } } : m \in ResolverMaps }

\* C13: the resolved-entity map never shrinks: every step of a session keeps the
\* mentions the map held, and changes the value of a mention only to a canonical
\* name the resolver returned for it.
C13_ResolvedNeverShrinks ==
    [][\A k \in Keys(Resolved) :
           /\ k \in Keys(Resolved')
           /\ \/ DictGet(Resolved', k) = DictGet(Resolved, k)
              \/ DictGet(Resolved', k) \in ResolvableTo(k)]_vars

----------------------------------------------------------------------------
\* C14: SchemaLoad with a cached schema does not call the Schema Provider and
\* leaves the schema and its timestamp as they are; and once the provider has
\* returned a schema in a session, no later step of the session calls it again.
C14_CachedSchemaIsKept ==
    [][/\ (pc = "get_schema" /\ schema # Null) =>
              /\ schema' = schema
              /\ schema_timestamp' = schema_timestamp
              /\ provider'.calls = provider.calls
       /\ provider.loads >= 1 => provider'.calls = provider.calls]_vars

----------------------------------------------------------------------------
\* A step of get_schema_node in which the provider was called and gave no schema.
ProviderFailedStep ==
    /\ pc = "get_schema"
    /\ provider'.calls = provider.calls + 1
    /\ provider'.loads = provider.loads

\* C15: a failed load (nothing cached, the provider returns an empty or
\* error-flagged text or raises) appends exactly one message, error-tagged, and
\* leaves schema and timestamp unset; the turn then ends with the session's
\* cache unset, a turn that starts from an unset cache enters SchemaLoad without
\* a schema, and SchemaLoad without a schema calls the provider.
C15_FailedLoadCachesNothing ==
    [][/\ ProviderFailedStep =>
              /\ schema = Null
              /\ messages' = Append(messages, messages'[Len(messages')])
              /\ messages'[Len(messages')].name = "error"
              /\ schema' = Null /\ schema_timestamp' = 0
       /\ (SchemaLoadFailed /\ pc' = "idle") =>
              (session_schema' = Null /\ session_timestamp' = 0)
       /\ (pc = "idle" /\ pc' # "idle" /\ session_schema = Null) =>
              (pc' = "get_schema" /\ schema' = Null)
       /\ (pc = "get_schema" /\ schema = Null) =>
              provider'.calls = provider.calls + 1]_vars

\* The load failed in the first turn and the second turn called the provider
\* again, this time getting the schema.
C15_Witness ==
    /\ turn = 2
    /\ provider = [calls |-> 2, loads |-> 1]
    /\ schema_timestamp = 2

----------------------------------------------------------------------------
\* The routing table after the syntax check, on a tag and a counter.
RouteAfterCheck(tag, attempts) ==
    IF tag = "error" /\ attempts < MAX_FIX_ATTEMPTS THEN "fix_query"
    ELSE IF tag = "check_result" THEN "execute_query"
    ELSE "format_answer"

\* C16: the stage after CheckSyntax is a function of the tag of the message it
\* appended and of the repair counter alone: error below the bound gives Repair,
\* check_result gives Execute, everything else FormatAnswer, whatever the
\* earlier messages of the history are.
C16_CheckRouterReadsLastTag ==
    (trace # << >> /\ Last(trace) = "check_query")
        => pc = RouteAfterCheck(LastName(messages), fix_attempts)

\* In a second turn the check failed with the repairs used up, and FormatAnswer
\* is next; the history holds results of the first turn and an earlier error.
C16_Witness ==
    /\ trace # << >> /\ Last(trace) = "check_query"
    /\ LastName(messages) = "error"
    /\ fix_attempts = MAX_FIX_ATTEMPTS
    /\ pc = "format_answer"
    /\ \E i \in 1..turn_start : messages[i].name = "results"

\* The routing table after Execute, on a tag.
RouteAfterExecute(tag) ==
    IF tag = "error" THEN "fix_query" ELSE "format_answer"

\* C17: the stage after Execute is a function of the tag of the message it
\* appended alone: error gives Repair, results and everything else FormatAnswer.
C17_ExecuteRouterReadsLastTag ==
    (trace # << >> /\ Last(trace) = "execute_query")
        => pc = RouteAfterExecute(LastName(messages))

\* Execute returned rows after an error earlier in the turn, and FormatAnswer is
\* next.
C17_Witness ==
    /\ trace # << >> /\ Last(trace) = "execute_query"
    /\ LastName(messages) = "results"
    /\ LastError > turn_start
    /\ pc = "format_answer"

----------------------------------------------------------------------------
\* One of the four inputs of Repair is missing from the history.
RepairContextMissing ==
    \/ find_last_message_by_name(messages, "sql_query") = 0
    \/ find_last_message_by_name(messages, "error") = 0
    \/ schema = Null
    \/ find_last_human_message(messages) = 0

\* C18: every execution of Repair adds exactly 1 to the repair counter; with a
\* missing input it appends an error-tagged message without calling the SQL
\* Repair collaborator; when the collaborator raises it appends an error-tagged
\* message; when it returns, Repair appends a sql_query-tagged message, which
\* is from then on the one a lookup of the latest sql_query finds.
C18_RepairCountsEveryAttempt ==
    [][pc = "fix_query" =>
          /\ fix_attempts' = fix_attempts + 1
          /\ messages' = Append(messages, messages'[Len(messages')])
          /\ RepairContextMissing =>
                 (fix'.call = "skipped" /\ LastName(messages') = "error")
          /\ fix'.call = "raised" => LastName(messages') = "error"
          /\ fix'.call = "returned" =>
                 /\ LastName(messages') = "sql_query"
                 /\ find_last_message_by_name(messages', "sql_query") = Len(messages')]_vars

\* Repair has just returned SQL that shadows the SQL GenerateQuery produced.
C18_Witness ==
    /\ trace # << >> /\ Last(trace) = "fix_query"
    /\ fix.call = "returned"
    /\ fix_attempts = 1
    /\ \E i \in (turn_start + 1)..(Len(messages) - 1) : messages[i].name = "sql_query"
    /\ find_last_message_by_name(messages, "sql_query") = Len(messages)

----------------------------------------------------------------------------
\* The two fixed messages of format_answer_node's short-circuits.
FixedApologies ==
    { <<"Error: LLM not available to format the final answer.">>,
      <<"Error: Could not find original question to formulate answer.">> }

\* C19: when the Answer Formatter is unavailable or the history holds no user
\* question, FormatAnswer appends one of its fixed messages and does not invoke
\* the formatter, whatever results and errors the history holds; and
\* FormatAnswer is terminal: it runs once, last, and the turn is at its end.
C19_ShortCircuitAndTerminal ==
    /\ (pc = "END" /\ (~fmt.llm \/ find_last_human_message(messages) = 0)) =>
           /\ fmt.reply = "None"
           /\ LastName(messages) = "None"
           /\ Last(messages).content \in FixedApologies
    /\ "format_answer" \in StagesRun =>
           /\ pc = "END"
           /\ Last(trace) = "format_answer"
           /\ Executed({"format_answer"}) = 1

\* The formatter was unavailable in a turn whose history holds results and an
\* error.
C19_Witness ==
    /\ pc = "END"
    /\ ~fmt.llm
    /\ LastResults > turn_start
    /\ LastError # 0
    /\ Last(messages).content \in FixedApologies

----------------------------------------------------------------------------
\* The turn of C20: GenerateQuery produced SQL, the check passed, Execute
\* returned its rows and FormatAnswer has run.
ExecutedTags == <<"sql_query", "check_result", "results", "None">>

ExecutedTurn(g) ==
    /\ pc = "END"
    /\ g \in 1..Len(trace)
    /\ trace[g] = "generate_query"
    /\ TagsFrom(MessageOfStage(g)) = ExecutedTags

\* The rows, one per line, as the prompt is to show them.
RowLines(rows) ==
    JoinTexts([k \in 1..Len(rows) |-> DumpRow(rows[k])], <<"\n">>, 1)

\* C20: in a turn whose SQL passes the syntax check and executes, the stages from
\* GenerateQuery on are GenerateQuery, CheckSyntax, Execute, FormatAnswer, with
\* no Repair and the repair counter at 0; unless the Answer Formatter is
\* unavailable, FormatAnswer builds its prompt from the message Execute appended:
\* when the executor returned zero rows the results text of the prompt is
\* "Geen resultaten gevonden." (not row content, not the error prompt), and when
\* it returned one or more rows the results text is exactly those rows.
C20_RowsReachTheFormatter ==
    \A g \in 1..Len(trace) :
        ExecutedTurn(g) =>
            /\ SubSeq(trace, g, Len(trace)) =
                   <<"generate_query", "check_query", "execute_query", "format_answer">>
            /\ "fix_query" \notin StagesRun
            /\ fix_attempts = 0
            /\ messages[Len(messages) - 1].content \in ResultContents
            /\ fmt.llm =>
                   /\ fmt.src = Len(messages) - 1
                   /\ fmt.reply # "None"
                   /\ \A rows \in ExecutorRows :
                          messages[Len(messages) - 1].content = json_dumps(rows) =>
                              IF rows = << >>
                              THEN /\ fmt.branch = "results_empty"
                                   /\ fmt.results = <<"Geen resultaten gevonden.">>
                              ELSE /\ fmt.branch = "results_rows"
                                   /\ fmt.results = RowLines(rows)

\* Such a turn with zero rows as the second of a session whose first turn left
\* rows in the history, the formatter answering.
C20_Witness ==
    /\ \E g \in 1..Len(trace) : ExecutedTurn(g)
    /\ turn = 2
    /\ messages[Len(messages) - 1].content = json_dumps(<< >>)
    /\ fmt.reply = "answered"
    /\ \E i \in 1..turn_start :
           /\ messages[i].name = "results"
           /\ messages[i].content # json_dumps(<< >>)

----------------------------------------------------------------------------
\* The sql_query-tagged message the stage that ran last looked up before it
\* appended its own message (0: none).
SqlRead == LastIndex(messages, Len(messages) - 1, "sql_query")

\* CheckSyntax or Execute ran last and had SQL to work on.
SqlStageRan ==
    /\ trace # << >>
    /\ Last(trace) \in {"check_query", "execute_query"}
    /\ SqlRead # 0

\* C21: the SQL that CheckSyntax checks and Execute runs was appended in the
\* same turn (by GenerateQuery or Repair): the sql_query-tagged message they
\* read lies after the turn's user message, never in the history earlier turns
\* left, also when GenerateQuery appended an error in this turn.
C21_SqlIsOfThisTurn == SqlStageRan => SqlRead > turn_start

----------------------------------------------------------------------------
\* The sql_query-tagged message the stage before the last one looked up (0: none).
SqlReadBefore == LastIndex(messages, Len(messages) - 2, "sql_query")

\* C22: Execute is entered only from a CheckSyntax that has just appended
\* check_result; when Execute has run, the stage before it was CheckSyntax, the
\* message before Execute's own is that check_result, and the sql_query-tagged
\* message Execute looked up is the one CheckSyntax looked up: no sql_query-tagged
\* message lies between the passing check and the execution.
C22_ExecutesWhatWasChecked ==
    /\ pc = "execute_query" =>
           /\ trace # << >> /\ Last(trace) = "check_query"
           /\ LastName(messages) = "check_result"
    /\ (trace # << >> /\ Last(trace) = "execute_query") =>
           /\ Len(trace) >= 2
           /\ trace[Len(trace) - 1] = "check_query"
           /\ messages[Len(messages) - 1].name = "check_result"
           /\ SqlRead # 0
           /\ SqlRead = SqlReadBefore
           /\ \A i \in (SqlRead + 1)..(Len(messages) - 1) :
                  messages[i].name # "sql_query"

\* Execute has returned rows for SQL that Repair produced after a failed check
\* earlier in the turn.
C22_Witness ==
    /\ trace # << >> /\ Last(trace) = "execute_query"
    /\ LastName(messages) = "results"
    /\ "fix_query" \in StagesRun
    /\ messages[SqlRead].content = RepairedSql
    /\ SqlRead > turn_start

----------------------------------------------------------------------------
\* CheckSyntax has just appended the turn's first error-tagged check outcome.
FirstCheckFailure ==
    /\ trace # << >>
    /\ Last(trace) = "check_query"
    /\ LastName(messages) = "error"
    /\ \A i \in 1..(Len(trace) - 1) :
           trace[i] = "check_query" => messages[MessageOfStage(i)].name # "error"

\* An earlier turn of the session ran Repair: its SQL follows an error in the
\* history that turn left.
RepairedInEarlierTurn ==
    \E i \in 1..(turn_start - 1) :
        /\ messages[i].name = "error"
        /\ messages[i + 1].name = "sql_query"

\* C23 as stated: the counter is 0 when a turn starts, and at the turn's first
\* syntax-check failure the whole budget is there: the counter is still 0 and
\* Repair is next.
C23_FullBudgetAtFirstCheckFailure ==
    /\ (pc # "idle" /\ trace = << >>) => fix_attempts = 0
    /\ FirstCheckFailure => (fix_attempts = 0 /\ pc = "fix_query")

\* C23: the repair counter is per turn: during a turn it is the number of
\* Repair executions of that turn, whatever earlier turns of the session did, so
\* it is 0 when the turn starts; a first syntax-check failure that comes before
\* any Repair of the turn finds the counter at 0 and is followed by Repair.
C23_CounterIsPerTurn ==
    /\ pc # "idle" => fix_attempts = Executed({"fix_query"})
    /\ (pc # "idle" /\ trace = << >>) => fix_attempts = 0
    /\ (FirstCheckFailure /\ "fix_query" \notin StagesRun) =>
           (fix_attempts = 0 /\ pc = "fix_query")

\* The second turn of a session whose first turn ran Repair is at its first
\* syntax-check failure, with Repair next.
C23_Witness ==
    /\ turn = 2
    /\ RepairedInEarlierTurn
    /\ FirstCheckFailure
    /\ fix_attempts = 0
    /\ pc = "fix_query"

----------------------------------------------------------------------------
\* A message the system wrote without a tag.
IsFinalAnswer(m) == m.type = "ai" /\ m.name = "None"

\* The final-answer messages the current turn has appended.
FinalAnswersOfTurn ==
    { i \in (turn_start + 1)..Len(messages) : IsFinalAnswer(messages[i]) }

\* C24: when the workflow of a turn has reached its end, FormatAnswer ran last
\* and the turn has appended exactly one untagged system-authored message, which
\* is the last message of the history; on_message then persists that history
\* whole for the session and sends the content of its last message as the
\* answer, so that after a completed turn the last message of the session's
\* history is the untagged answer that was sent, never a tagged one.
C24_FinalAnswerIsLast ==
    [][ /\ pc = "END" =>
               /\ Last(trace) = "format_answer"
               /\ FinalAnswersOfTurn = { Len(messages) }
        /\ (pc = "END" /\ pc' = "idle") =>
               /\ session_messages' = messages
               /\ answer' = Last(messages).content
               /\ outcome'.kind = "answered"
        /\ (pc' = "idle" /\ outcome'.kind = "answered") =>
               /\ IsFinalAnswer(Last(session_messages'))
               /\ answer' = Last(session_messages').content
      ]_vars

\* The second turn of a session has completed after a failure: the message
\* before the answer is error-tagged, and the answer sent is the last message.
C24_Witness ==
    /\ pc = "idle"
    /\ turn = 2
    /\ outcome.kind = "answered"
    /\ IsFinalAnswer(Last(session_messages))
    /\ session_messages[Len(session_messages) - 1].name = "error"
    /\ answer = Last(session_messages).content

====
